---- MODULE Spec2Model ----
(***************************************************************************)
(* world_scraper (src/main.py): scans a Minecraft save for "important"     *)
(* items.  Strings are sequences of one-character strings, so substring    *)
(* tests are computed.  A call's outcome is a record: [kind |-> "ret",     *)
(* val |-> v] for a normal return, [kind |-> "raise", exc |-> e] for an    *)
(* exception leaving the function.                                         *)
(***************************************************************************)
EXTENDS Integers, Naturals, Sequences, FiniteSets, TLC

VARIABLES
    item, name_result, important_result,        \* classifier harness
    chunk, chunk_result,                        \* chunk scanner harness
    world, world_result,                        \* search_world harness
    fs,                                         \* the save on disk (input of main)
    pc,                                         \* position of main()
    dimension_position_item,                    \* main: list of (dimension, search_world result)
    cached_player_names,                        \* module global, line 10
    player_inventory,                           \* search_players: dict, in insertion order
    player_debris_mined,                        \* search_stats: list of (name, count)
    file_index,                                 \* loop position in the current glob
    response,                                   \* the reply urlopen is about to deliver
    calls,                                      \* log of name lookups and recordings
    output, written,                            \* the lines of output.txt, and whether it was written
    error                                       \* the exception that ended main(), if any

item_vars  == <<item, name_result, important_result>>
chunk_vars == <<chunk, chunk_result>>
world_vars == <<world, world_result>>
main_vars  == <<fs, pc, dimension_position_item, cached_player_names, player_inventory,
                player_debris_mined, file_index, response, calls, output, written,
                error>>
vars == <<item_vars, chunk_vars, world_vars, main_vars>>

Ret(v)   == [kind |-> "ret", val |-> v]
Raise(e) == [kind |-> "raise", exc |-> e]
Returned(r) == r.kind = "ret"
Raised(r)   == r.kind = "raise"

\* Sequencing of Python statements: r is evaluated once; an exception it raised
\* propagates, a value it returned is handed to the rest of the function, K.
Then(r, K(_)) == CHOOSE out \in {IF Raised(x) THEN x ELSE K(x.val) : x \in {r}} : TRUE

(***************************************************************************)
(* Strings                                                                 *)
(***************************************************************************)
\* Python's `k in s` on two str values: k occurs as a contiguous substring.
StrContains(s, k) ==
    \E i \in 0 .. (Len(s) - Len(k)) : SubSeq(s, i + 1, i + Len(k)) = k

S_text      == <<"t","e","x","t">>
S_netherite == <<"n","e","t","h","e","r","i","t","e">>
S_ancient_debris == <<"a","n","c","i","e","n","t","_","d","e","b","r","i","s">>
S_shulk     == <<"s","h","u","l","k">>
S_minecraft == <<"m","i","n","e","c","r","a","f","t",":">>
S_Excalibur == <<"E","x","c","a","l","i","b","u","r">>
S_Bob       == <<"B","o","b">>
S_color     == <<"c","o","l","o","r">>
S_red       == <<"r","e","d">>

ID_netherite_ingot == S_minecraft \o S_netherite \o <<"_","i","n","g","o","t">>
ID_ancient_debris  == S_minecraft \o S_ancient_debris
ID_shulker_box     == S_minecraft \o S_shulk \o <<"e","r","_","b","o","x">>
ID_Shulker_box     == S_minecraft \o <<"S","h","u","l","k","e","r","_","b","o","x">>
ID_nether_brick    == S_minecraft \o <<"n","e","t","h","e","r","_","b","r","i","c","k">>
ID_stone           == S_minecraft \o <<"s","t","o","n","e">>
ID_diamond_sword   == S_minecraft \o <<"d","i","a","m","o","n","d","_","s","w","o","r","d">>

(***************************************************************************)
(* json.loads, on a document given as its sequence of lexemes.  A lexeme   *)
(* is [t |-> type] with t one of "{", "}", "[", "]", ":", ",", "null",     *)
(* "str" (with s, the characters), "num" (with n), or "junk" (characters   *)
(* that begin no JSON token, as in `not valid json`).                      *)
(* A decoded value is [k |-> "obj", members |-> seq of <<key, value>>],    *)
(* [k |-> "arr", elems |-> seq], [k |-> "str", s |-> chars],               *)
(* [k |-> "num", n |-> int] or [k |-> "null"] (Python's None).             *)
(***************************************************************************)
T(t)    == [t |-> t]
TStr(s) == [t |-> "str", s |-> s]
TNum(n) == [t |-> "num", n |-> n]

None      == [k |-> "null"]
PyStr(s)  == [k |-> "str", s |-> s]
PyNum(n)  == [k |-> "num", n |-> n]
PyArr(es) == [k |-> "arr", elems |-> es]
PyObj(ms) == [k |-> "obj", members |-> ms]

ParseFail == [ok |-> FALSE]
ParseOk(v, next) == [ok |-> TRUE, v |-> v, next |-> next]

RECURSIVE ParseValue(_, _), ParseElems(_, _, _), ParseMembers(_, _, _)
\* one JSON value starting at lexeme i
ParseValue(toks, i) ==
    IF i > Len(toks) THEN ParseFail
    ELSE LET tk == toks[i] IN
         CASE tk.t = "null" -> ParseOk(None, i + 1)
           [] tk.t = "str"  -> ParseOk(PyStr(tk.s), i + 1)
           [] tk.t = "num"  -> ParseOk(PyNum(tk.n), i + 1)
           [] tk.t = "["    ->
                IF i + 1 <= Len(toks) /\ toks[i + 1].t = "]"
                THEN ParseOk(PyArr(<<>>), i + 2)
                ELSE ParseElems(toks, i + 1, <<>>)
           [] tk.t = "{"    ->
                IF i + 1 <= Len(toks) /\ toks[i + 1].t = "}"
                THEN ParseOk(PyObj(<<>>), i + 2)
                ELSE ParseMembers(toks, i + 1, <<>>)
           [] OTHER -> ParseFail
\* value (, value)* ] with the elements read so far in acc
ParseElems(toks, i, acc) ==
    LET r == ParseValue(toks, i) IN
    IF ~r.ok \/ r.next > Len(toks) THEN ParseFail
    ELSE CASE toks[r.next].t = "]" -> ParseOk(PyArr(Append(acc, r.v)), r.next + 1)
           [] toks[r.next].t = "," -> ParseElems(toks, r.next + 1, Append(acc, r.v))
           [] OTHER -> ParseFail
\* "key" : value (, "key" : value)* } with the members read so far in acc
ParseMembers(toks, i, acc) ==
    IF i + 1 > Len(toks) \/ toks[i].t # "str" \/ toks[i + 1].t # ":" THEN ParseFail
    ELSE LET r == ParseValue(toks, i + 2) IN
         IF ~r.ok \/ r.next > Len(toks) THEN ParseFail
         ELSE LET acc2 == Append(acc, <<toks[i].s, r.v>>) IN
              CASE toks[r.next].t = "}" -> ParseOk(PyObj(acc2), r.next + 1)
                [] toks[r.next].t = "," -> ParseMembers(toks, r.next + 1, acc2)
                [] OTHER -> ParseFail

\* json.loads(s): the whole document must be exactly one value
JsonLoads(toks) ==
    LET r == ParseValue(toks, 1) IN
    IF r.ok /\ r.next = Len(toks) + 1 THEN Ret(r.v) ELSE Raise("JSONDecodeError")

\* Python's `key in v` for a str key and a decoded value v
PyIn(key, v) ==
    CASE v.k = "obj" -> Ret(\E j \in 1 .. Len(v.members) : v.members[j][1] = key)
      [] v.k = "arr" -> Ret(\E j \in 1 .. Len(v.elems) :
                                v.elems[j].k = "str" /\ v.elems[j].s = key)
      [] v.k = "str" -> Ret(StrContains(v.s, key))
      [] OTHER       -> Raise("TypeError")

\* Python's v[key] for a str key: a dict yields the last member with that key
PyGetItem(v, key) ==
    IF v.k = "obj"
    THEN LET hits == {j \in 1 .. Len(v.members) : v.members[j][1] = key} IN
         IF hits = {} THEN Raise("KeyError")
         ELSE Ret(v.members[CHOOSE j \in hits : \A h \in hits : h <= j][2])
    ELSE Raise("TypeError")

(***************************************************************************)
(* Item Classifier                                                         *)
(***************************************************************************)
Has(compound, key) == key \in DOMAIN compound

\* get_name(item), lines 12-27
get_name(it) ==
    IF ~Has(it, "tag") THEN Ret(None)
    ELSE LET tag == it.tag IN
         IF ~Has(tag, "display") \/ ~Has(tag.display, "Name") THEN Ret(None)
         ELSE Then(JsonLoads(tag.display.Name), LAMBDA name :
              Then(PyIn(S_text, name), LAMBDA has_text :
                   IF ~has_text THEN Ret(None) ELSE PyGetItem(name, S_text)))

keywords == <<S_netherite, S_ancient_debris, S_shulk>>

\* is_important_item without the early return on a missing id (line 30)
is_important_item_no_id_guard(it) ==
    Then(get_name(it), LAMBDA name :
         IF name # None THEN Ret(TRUE)
         ELSE Ret(Has(it, "id")
                  /\ \E n \in 1 .. Len(keywords) : StrContains(it.id, keywords[n])))

\* is_important_item(item), lines 29-45
is_important_item(it) ==
    IF ~Has(it, "id") THEN Ret(FALSE)
    ELSE LET id == it.id IN
         Then(get_name(it), LAMBDA name :
              IF name # None THEN Ret(TRUE)
              ELSE Ret(\E n \in 1 .. Len(keywords) : StrContains(id, keywords[n])))

(***************************************************************************)
(* Chunk Scanner                                                           *)
(***************************************************************************)
INVENTORY_NAMES_swapped == <<"ArmorItems", "Items", "HandItems">>

\* line 48
INVENTORY_NAMES == <<"Items", "ArmorItems", "HandItems">>

RECURSIVE ScanItems(_, _, _, _)
\* `for item in <list>: if is_important_item(item): position_item.append((pos, item))`
\* (lines 69-71 and 87-89), from element j on
ScanItems(pos, items, j, acc) ==
    IF j > Len(items) THEN Ret(acc)
    ELSE Then(is_important_item(items[j]), LAMBDA important :
              ScanItems(pos, items, j + 1,
                        IF important THEN Append(acc, <<pos, items[j]>>) ELSE acc))

RECURSIVE ScanInventories(_, _, _, _)
\* `for inventory_name in INVENTORY_NAMES` (lines 67-71), from name k on
ScanInventories(pos, entity, k, acc) ==
    IF k > Len(INVENTORY_NAMES) THEN Ret(acc)
    ELSE IF ~Has(entity, INVENTORY_NAMES[k]) THEN ScanInventories(pos, entity, k + 1, acc)
    ELSE Then(ScanItems(pos, entity[INVENTORY_NAMES[k]], 1, acc), LAMBDA acc2 :
              ScanInventories(pos, entity, k + 1, acc2))

\* the body of `for entity in entities` (lines 61-75)
ScanEntity(entity, acc) ==
    IF ~Has(entity, "Pos") THEN Raise("KeyError")
    ELSE LET pos == entity.Pos IN
         Then(ScanInventories(pos, entity, 1, acc), LAMBDA acc2 :
              IF ~Has(entity, "Item") THEN Ret(acc2)
              ELSE Then(is_important_item(entity.Item), LAMBDA important :
                        Ret(IF important THEN Append(acc2, <<pos, entity.Item>>) ELSE acc2)))

RECURSIVE ScanEntities(_, _, _)
\* `for entity in entities` (line 60), from entity i on
ScanEntities(entities, i, acc) ==
    IF i > Len(entities) THEN Ret(acc)
    ELSE Then(ScanEntity(entities[i], acc), LAMBDA acc2 :
              ScanEntities(entities, i + 1, acc2))

RECURSIVE ScanTileEntities(_, _, _)
\* `for tile_entity in tile_entities` (lines 78-89), from tile entity i on
ScanTileEntities(tiles, i, acc) ==
    IF i > Len(tiles) THEN Ret(acc)
    ELSE LET te == tiles[i] IN
         IF ~Has(te, "Items") THEN ScanTileEntities(tiles, i + 1, acc)
         ELSE LET pos == <<te.x, te.y, te.z>> IN
              Then(ScanItems(pos, te.Items, 1, acc), LAMBDA acc2 :
                   ScanTileEntities(tiles, i + 1, acc2))

\* get_important_chunk_items(chunk), lines 47-91
get_important_chunk_items(ch) ==
    IF ~Has(ch, "Level") THEN Raise("KeyError")
    ELSE LET level == ch.Level IN
         IF ~Has(level, "Entities") \/ ~Has(level, "TileEntities") THEN Raise("KeyError")
         ELSE LET entities      == level.Entities
                  tile_entities == level.TileEntities
              IN  IF Len(entities) = 0 /\ Len(tile_entities) = 0 THEN Ret(<<>>)
                  ELSE Then(ScanEntities(entities, 1, <<>>), LAMBDA position_item :
                            ScanTileEntities(tile_entities, 1, position_item))

(***************************************************************************)
(* search_world                                                            *)
(***************************************************************************)
ReturnedNone == [kind |-> "none"]       \* a bare `return`

RECURSIVE SearchChunks(_, _, _)
\* `for chunk in chunk_iter: position_item += get_important_chunk_items(chunk)`
\* (lines 184-185), from chunk c on
SearchChunks(chunks, c, acc) ==
    IF c > Len(chunks) THEN Ret(acc)
    ELSE Then(get_important_chunk_items(chunks[c]), LAMBDA found :
              SearchChunks(chunks, c + 1, acc \o found))

RECURSIVE SearchRegions(_, _, _)
\* `for region in progress_bar` (lines 175-185), from region r on
SearchRegions(regions, r, acc) ==
    IF r > Len(regions) THEN Ret(acc)
    ELSE Then(SearchChunks(regions[r], 1, acc), LAMBDA acc2 :
              SearchRegions(regions, r + 1, acc2))

\* search_world(world_dir), lines 155-187.  world_dir is [exists, opens, regions]:
\* whether the path exists, whether WorldFolder(world_dir) succeeds, and the
\* chunks that iter_regions / iter_chunks yield.
search_world(world_dir) ==
    IF ~world_dir.exists THEN ReturnedNone
    ELSE IF ~world_dir.opens THEN ReturnedNone
    ELSE SearchRegions(world_dir.regions, 1, <<>>)

(***************************************************************************)
(* Inputs of the harnesses                                                 *)
(***************************************************************************)
MaxEntities == 2
MaxTiles    == 2
MaxRegions  == 2
MaxChunks   == 2

Empty   == [x \in {} |-> TRUE]          \* a compound with no fields
Pending == [kind |-> "pending"]         \* the call has not been made yet
Idle    == [kind |-> "idle"]            \* not part of this specification
SeqsUpTo(S, n) == UNION {[1 .. k -> S] : k \in 0 .. n}

\* tag.display.Name payloads
Doc_Excalibur      == <<T("{"), TStr(S_text), T(":"), TStr(S_Excalibur), T("}")>>
Doc_color          == <<T("{"), TStr(S_color), T(":"), TStr(S_red), T("}")>>
Doc_color_and_text == <<T("{"), TStr(S_color), T(":"), TStr(S_red), T(","),
                        TStr(S_text), T(":"), TStr(S_Bob), T("}")>>
Doc_text_null      == <<T("{"), TStr(S_text), T(":"), T("null"), T("}")>>
Doc_text_empty     == <<T("{"), TStr(S_text), T(":"), TStr(<<>>), T("}")>>
Doc_not_valid_json == <<T("junk"), T("junk"), T("junk")>>
Doc_truncated      == <<T("{"), TStr(S_text), T(":"), TStr(S_Excalibur)>>
Doc_empty          == <<>>
Doc_str_text       == <<TStr(S_text)>>
Doc_str_Bob        == <<TStr(S_Bob)>>
Doc_num            == <<TNum(5)>>
Doc_null           == <<T("null")>>
Doc_arr_text       == <<T("["), TStr(S_text), T("]")>>
Doc_arr_empty      == <<T("["), T("]")>>

NameDocs == {Doc_Excalibur, Doc_color, Doc_color_and_text, Doc_text_null, Doc_text_empty,
             Doc_not_valid_json, Doc_truncated, Doc_empty, Doc_str_text, Doc_str_Bob,
             Doc_num, Doc_null, Doc_arr_text, Doc_arr_empty}

IdOptions == {ID_netherite_ingot, ID_ancient_debris, ID_shulker_box, ID_Shulker_box,
              ID_nether_brick, ID_stone}

TagOptions ==
    {Empty, "tag" :> Empty, "tag" :> [display |-> Empty]}
    \cup {"tag" :> [display |-> [Name |-> d]] : d \in NameDocs}

ItemSamples ==
    {i @@ c @@ t : i \in {Empty} \cup {"id" :> x : x \in IdOptions},
                   c \in {Empty, "Count" :> 1},
                   t \in TagOptions}

IT_netherite3  == [id |-> ID_netherite_ingot, Count |-> 3]
IT_stone       == [id |-> ID_stone, Count |-> 64]
IT_shulker     == [id |-> ID_shulker_box, Count |-> 1]
IT_debris      == [id |-> ID_ancient_debris, Count |-> 2]
IT_named_sword == [id |-> ID_diamond_sword, Count |-> 1,
                   tag |-> [display |-> [Name |-> Doc_Excalibur]]]
IT_named_stone == [id |-> ID_stone, Count |-> 1,
                   tag |-> [display |-> [Name |-> Doc_color_and_text]]]
IT_bad_name    == [id |-> ID_stone, Count |-> 1,
                   tag |-> [display |-> [Name |-> Doc_not_valid_json]]]
IT_empty_slot  == Empty

EntitySamples ==
    { [Pos |-> <<10, 64, -5>>, Items |-> <<IT_netherite3, IT_stone>>,
       ArmorItems |-> <<IT_named_sword>>, HandItems |-> <<IT_shulker>>, Item |-> IT_debris],
      [Pos |-> <<0, 70, 0>>, Item |-> IT_stone],
      [Pos |-> <<1, 2, 3>>, Items |-> <<>>, HandItems |-> <<IT_stone, IT_shulker>>],
      [Pos |-> <<7, 7, 7>>],
      [Pos |-> <<4, 5, 6>>, ArmorItems |-> <<IT_empty_slot>>, HandItems |-> <<IT_named_stone>>],
      [Pos |-> <<8, 8, 8>>, Items |-> <<IT_debris, IT_bad_name>>] }

TileSamples ==
    { [x |-> 5, y |-> 60, z |-> 5, Items |-> <<IT_shulker, IT_stone, IT_netherite3>>],
      [x |-> 1, y |-> 1, z |-> 1],
      [x |-> 2, y |-> 2, z |-> 2, Items |-> <<IT_stone>>],
      [x |-> -3, y |-> 11, z |-> 9, Items |-> <<IT_debris>>] }

ChunkSamples ==
    {Empty} \cup
    { [Level |-> e @@ t] :
        e \in {Empty} \cup {"Entities" :> es : es \in SeqsUpTo(EntitySamples, MaxEntities)},
        t \in {Empty} \cup {"TileEntities" :> ts : ts \in SeqsUpTo(TileSamples, MaxTiles)} }

CH_empty   == [Level |-> [Entities |-> <<>>, TileEntities |-> <<>>]]
CH_entity  == [Level |-> [Entities |-> <<[Pos |-> <<10, 64, -5>>, Items |-> <<IT_netherite3>>]>>,
                          TileEntities |-> <<>>]]
CH_tile    == [Level |-> [Entities |-> <<>>,
                          TileEntities |-> <<[x |-> 5, y |-> 60, z |-> 5,
                                              Items |-> <<IT_shulker, IT_stone>>]>>]]
CH_no_entities == [Level |-> [TileEntities |-> <<[x |-> 2, y |-> 2, z |-> 2,
                                                  Items |-> <<IT_debris>>]>>]]

WorldChunkSamples == {CH_entity, CH_tile, CH_no_entities}

WorldSamples ==
    [exists : BOOLEAN, opens : BOOLEAN,
     regions : SeqsUpTo(SeqsUpTo(WorldChunkSamples, MaxChunks), MaxRegions)]

(***************************************************************************)
(* Harness specifications: the input is drawn, then the function is called *)
(***************************************************************************)
IdleItem  == item = Idle /\ name_result = Idle /\ important_result = Idle
IdleChunk == chunk = Idle /\ chunk_result = Idle
IdleWorld == world = Idle /\ world_result = Idle
IdleMain  == /\ fs = Idle /\ pc = "idle" /\ dimension_position_item = <<>>
             /\ cached_player_names = Empty /\ player_inventory = <<>>
             /\ player_debris_mined = <<>> /\ file_index = 0 /\ response = Idle
             /\ calls = <<>> /\ output = <<>> /\ written = FALSE /\ error = Idle

InitItem ==
    /\ item \in ItemSamples
    /\ name_result = Pending /\ important_result = Pending
    /\ IdleChunk /\ IdleWorld /\ IdleMain

CallGetName ==
    /\ name_result = Pending
    /\ name_result' = get_name(item)
    /\ UNCHANGED <<item, important_result, chunk_vars, world_vars, main_vars>>

CallIsImportantItem ==
    /\ important_result = Pending
    /\ important_result' = is_important_item(item)
    /\ UNCHANGED <<item, name_result, chunk_vars, world_vars, main_vars>>

NextItem == CallGetName \/ CallIsImportantItem
SpecItem == InitItem /\ [][NextItem]_vars

InitChunk ==
    /\ chunk \in ChunkSamples
    /\ chunk_result = Pending
    /\ IdleItem /\ IdleWorld /\ IdleMain

CallGetImportantChunkItems ==
    /\ chunk_result = Pending
    /\ chunk_result' = get_important_chunk_items(chunk)
    /\ UNCHANGED <<chunk, item_vars, world_vars, main_vars>>

NextChunk == CallGetImportantChunkItems
SpecChunk == InitChunk /\ [][NextChunk]_vars

InitWorld ==
    /\ world \in WorldSamples
    /\ world_result = Pending
    /\ IdleItem /\ IdleChunk /\ IdleMain

CallSearchWorld ==
    /\ world_result = Pending
    /\ world_result' = search_world(world)
    /\ UNCHANGED <<world, item_vars, chunk_vars, main_vars>>

NextWorld == CallSearchWorld
SpecWorld == InitWorld /\ [][NextWorld]_vars

(***************************************************************************)
(* main(): the save on disk                                                *)
(***************************************************************************)
MaxPlayers == 2
MaxStats   == 2

\* line 198, in the order checked
PATHS == <<"world_dir", "nether_dir", "end_dir", "playerdata_dir", "stats_dir">>
\* lines 204-208
DIMENSIONS == <<[name |-> "overworld", dir |-> "world_dir"],
                [name |-> "nether",    dir |-> "nether_dir"],
                [name |-> "end",       dir |-> "end_dir"]>>

UUIDS == <<"uuid-1", "uuid-2", "uuid-3", "uuid-4">>

Str(s) == [type |-> "str", value |-> s]         \* a Python str holding s

\* the i-th file of playerdata/: <uuid>.dat
PlayerFileSamples(i) ==
    { [uuid |-> UUIDS[i], nbt |-> b @@ inv] :
        b \in {Empty} \cup {"bukkit" :> [lastKnownName |-> n] : n \in {"Steve", "Alex"}},
        inv \in { [Inventory |-> <<IT_stone>>, EnderItems |-> <<>>],
                  IF i % 2 = 1
                  THEN [Inventory |-> <<IT_netherite3, IT_stone>>, EnderItems |-> <<IT_shulker>>]
                  ELSE [Inventory |-> <<IT_debris>>, EnderItems |-> <<IT_named_sword>>] } }

\* the j-th file of stats/: <uuid>.json
StatsFileSamples(j) ==
    { [uuid |-> UUIDS[j], data |-> [stats |-> st]] :
        st \in { Empty,
                 "minecraft:mined" :> Empty,
                 "minecraft:mined" :> ("minecraft:ancient_debris" :> (6 + j)) } }

PlayerDirs == UNION { {f \in [1 .. n -> UNION {PlayerFileSamples(i) : i \in 1 .. n}] :
                          \A i \in 1 .. n : f[i] \in PlayerFileSamples(i)} : n \in 0 .. MaxPlayers }
StatsDirs  == UNION { {f \in [1 .. n -> UNION {StatsFileSamples(j) : j \in 1 .. n}] :
                          \A j \in 1 .. n : f[j] \in StatsFileSamples(j)} : n \in 0 .. MaxStats }

W_ok         == [opens |-> TRUE,  regions |-> <<<<CH_entity, CH_empty>>, <<CH_tile>>>>]
W_empty      == [opens |-> TRUE,  regions |-> <<>>]
W_unopenable == [opens |-> FALSE, regions |-> <<>>]
W_bad_chunk  == [opens |-> TRUE,  regions |-> <<<<CH_entity, CH_no_entities>>>>]
MainWorldSamples == {W_ok, W_empty, W_unopenable, W_bad_chunk}

AllPaths == [p \in {PATHS[n] : n \in 1 .. Len(PATHS)} |-> TRUE]

\* what the Mojang endpoint can answer: a transport error or timeout, a body that
\* is not JSON, or a JSON list of name entries (possibly empty)
Responses == { Raise("URLError"),
               Ret([json |-> FALSE, names |-> <<>>]),
               Ret([json |-> TRUE,  names |-> <<>>]),
               Ret([json |-> TRUE,  names |-> <<"Notch">>]),
               Ret([json |-> TRUE,  names |-> <<"OldName", "jeb_">>]) }

NoError == [kind |-> "none"]

InitMain ==
    /\ \/ /\ fs \in [paths : {AllPaths}, dims : [1 .. 3 -> MainWorldSamples],
                     players : {<<CHOOSE f \in PlayerFileSamples(1) :
                                     Has(f.nbt, "bukkit") /\ Len(f.nbt.Inventory) = 2>>},
                     stats : {<<CHOOSE f \in StatsFileSamples(1) :
                                     Has(f.data.stats, "minecraft:mined")
                                     /\ Has(f.data.stats["minecraft:mined"],
                                            "minecraft:ancient_debris")>>}]
       \/ /\ fs \in [paths : {AllPaths}, dims : {[d \in 1 .. 3 |-> W_ok]},
                     players : PlayerDirs, stats : StatsDirs]
       \/ /\ fs \in [paths : {[AllPaths EXCEPT ![PATHS[n]] = FALSE] : n \in 1 .. Len(PATHS)},
                     dims : {[d \in 1 .. 3 |-> W_ok]},
                     players : {<<>>}, stats : {<<>>}]
    /\ pc = "check"
    /\ dimension_position_item = <<>>
    /\ cached_player_names = Empty
    /\ player_inventory = <<>>
    /\ player_debris_mined = <<>>
    /\ file_index = 1
    /\ response = Pending
    /\ calls = <<>>
    /\ output = <<>>
    /\ written = FALSE
    /\ error = NoError
    /\ IdleItem /\ IdleChunk /\ IdleWorld

(***************************************************************************)
(* main(): the steps                                                       *)
(***************************************************************************)
Running(at) == pc = at /\ error = NoError

\* lines 198-202
CheckPaths ==
    /\ Running("check")
    /\ pc' = IF \E n \in 1 .. Len(PATHS) : ~fs.paths[PATHS[n]] THEN "returned" ELSE "worlds"
    /\ UNCHANGED <<fs, dimension_position_item, cached_player_names, player_inventory,
                   player_debris_mined, file_index, response, calls, output, written, error>>
    /\ UNCHANGED <<item_vars, chunk_vars, world_vars>>

WorldDir(d) == [exists  |-> fs.paths[DIMENSIONS[d].dir],
                opens   |-> fs.dims[d].opens,
                regions |-> fs.dims[d].regions]

\* one element of the list built at lines 204-208: (dimension, search_world(dir))
SearchDimension ==
    /\ Running("worlds")
    /\ \E r \in {search_world(WorldDir(file_index))} :
       IF Raised(r)
       THEN /\ error' = r
            /\ UNCHANGED <<pc, dimension_position_item, file_index>>
       ELSE /\ dimension_position_item' =
                   Append(dimension_position_item, <<DIMENSIONS[file_index].name, r>>)
            /\ IF file_index = Len(DIMENSIONS)
               THEN pc' = "players" /\ file_index' = 1
               ELSE pc' = pc /\ file_index' = file_index + 1
            /\ UNCHANGED error
    /\ UNCHANGED <<fs, cached_player_names, player_inventory, player_debris_mined,
                   response, calls, output, written>>
    /\ UNCHANGED <<item_vars, chunk_vars, world_vars>>

\* d[key] = value on a dict kept as its (key, value) pairs in insertion order
DictSet(d, key, value) ==
    IF \E n \in 1 .. Len(d) : d[n][1] = key
    THEN [n \in 1 .. Len(d) |-> IF d[n][1] = key THEN <<key, value>> ELSE d[n]]
    ELSE Append(d, <<key, value>>)

\* line 102 with `.value` taken: the name as a plain str
lastKnownName_value(file) == Str(file.nbt.bukkit.lastKnownName)

\* nbtfile['bukkit']['lastKnownName'], line 102: the TAG_String object of the decoded
\* file itself, not its `.value` (compare lines 22 and 33).  nbt's TAG_String defines
\* neither __eq__ nor __hash__, so as a dict key it is told apart by object identity:
\* obj names the object, one per decoded file.
lastKnownName(file) ==
    [type |-> "TAG_String", obj |-> file.uuid, value |-> file.nbt.bukkit.lastKnownName]

RECURSIVE MatchItems(_, _, _)
\* `for item in inventory: if is_important_item(item): player_matches.append(item)`
\* (lines 112-114), from item j on
MatchItems(inventory, j, acc) ==
    IF j > Len(inventory) THEN Ret(acc)
    ELSE Then(is_important_item(inventory[j]), LAMBDA important :
              MatchItems(inventory, j + 1,
                         IF important THEN Append(acc, inventory[j]) ELSE acc))

\* lines 107-114
PlayerMatches(nbtfile) ==
    IF ~Has(nbtfile, "Inventory") THEN Raise("KeyError")
    ELSE Then(MatchItems(nbtfile.Inventory, 1, <<>>), LAMBDA matches :
              IF ~Has(nbtfile, "EnderItems") THEN Raise("KeyError")
              ELSE MatchItems(nbtfile.EnderItems, 1, matches))

\* one iteration of search_players' loop, lines 96-117
SearchPlayersFile ==
    /\ Running("players")
    /\ file_index <= Len(fs.players)
    /\ LET file    == fs.players[file_index]
           nbtfile == file.nbt
           named   == Has(nbtfile, "bukkit") /\ Has(nbtfile.bukkit, "lastKnownName")
           player_name == IF named THEN lastKnownName(file) ELSE Str(file.uuid)
       IN  \E player_matches \in {PlayerMatches(nbtfile)} :
           /\ cached_player_names' =
                  IF named THEN (file.uuid :> player_name) @@ cached_player_names
                  ELSE cached_player_names
           /\ IF Raised(player_matches)
              THEN /\ error' = player_matches
                   /\ UNCHANGED <<player_inventory, file_index>>
              ELSE /\ player_inventory' =
                          IF Len(player_matches.val) > 0
                          THEN DictSet(player_inventory, player_name, player_matches.val)
                          ELSE player_inventory
                   /\ file_index' = file_index + 1
                   /\ UNCHANGED error
    /\ UNCHANGED <<fs, pc, dimension_position_item, player_debris_mined, response, calls,
                   output, written>>
    /\ UNCHANGED <<item_vars, chunk_vars, world_vars>>

\* search_players returns (line 119); main goes on to search_stats (line 210)
ReturnPlayers ==
    /\ Running("players")
    /\ file_index > Len(fs.players)
    /\ pc' = "stats"
    /\ file_index' = 1
    /\ UNCHANGED <<fs, dimension_position_item, cached_player_names, player_inventory,
                   player_debris_mined, response, calls, output, written, error>>
    /\ UNCHANGED <<item_vars, chunk_vars, world_vars>>

\* a lookup that ignores the cache
CachedName_ignored(uuid) == None

\* cached_player_names.get(uuid, None), line 144
CachedName(uuid) ==
    IF uuid \in DOMAIN cached_player_names THEN cached_player_names[uuid] ELSE None

Event(ev, uuid) == [ev |-> ev, uuid |-> uuid]

\* one iteration of search_stats' loop up to the name lookup, lines 124-146, and
\* line 151 when the name was cached
SearchStatsFile ==
    /\ Running("stats")
    /\ file_index <= Len(fs.stats)
    /\ LET file  == fs.stats[file_index]
           stats == file.data.stats
       IN  IF ~Has(stats, "minecraft:mined")
              \/ ~Has(stats["minecraft:mined"], "minecraft:ancient_debris")
           THEN /\ file_index' = file_index + 1
                /\ UNCHANGED <<pc, player_debris_mined, calls>>
           ELSE LET mined_count == stats["minecraft:mined"]["minecraft:ancient_debris"]
                    name        == CachedName(file.uuid)
                IN  IF name = None
                    THEN /\ pc' = "urlopen"
                         /\ UNCHANGED <<file_index, player_debris_mined, calls>>
                    ELSE /\ player_debris_mined' =
                                Append(player_debris_mined, <<name, mined_count>>)
                         /\ calls' = Append(calls, Event("record", file.uuid))
                         /\ file_index' = file_index + 1
                         /\ UNCHANGED pc
    /\ UNCHANGED <<fs, dimension_position_item, cached_player_names, player_inventory,
                   response, output, written, error>>
    /\ UNCHANGED <<item_vars, chunk_vars, world_vars>>

\* lines 147-149: the request is sent and the reply decoded
UrlOpen ==
    /\ Running("urlopen")
    /\ \E r \in Responses :
          /\ response' = r
          /\ calls' = Append(calls, Event("call", fs.stats[file_index].uuid))
          /\ IF Raised(r) THEN error' = r /\ pc' = pc
             ELSE IF ~r.val.json THEN error' = Raise("JSONDecodeError") /\ pc' = pc
             ELSE IF Len(r.val.names) = 0 THEN error' = Raise("IndexError") /\ pc' = pc
             ELSE error' = error /\ pc' = "record"
    /\ UNCHANGED <<fs, dimension_position_item, cached_player_names, player_inventory,
                   player_debris_mined, file_index, output, written>>
    /\ UNCHANGED <<item_vars, chunk_vars, world_vars>>

\* lines 149-151 with the looked-up name: name = contents[-1]['name']
RecordLookedUp ==
    /\ Running("record")
    /\ LET file  == fs.stats[file_index]
           names == response.val.names
           name  == Str(names[Len(names)])
           mined_count == file.data.stats["minecraft:mined"]["minecraft:ancient_debris"]
       IN  /\ player_debris_mined' = Append(player_debris_mined, <<name, mined_count>>)
           /\ calls' = Append(calls, Event("record", file.uuid))
    /\ file_index' = file_index + 1
    /\ pc' = "stats"
    /\ UNCHANGED <<fs, dimension_position_item, cached_player_names, player_inventory,
                   response, output, written, error>>
    /\ UNCHANGED <<item_vars, chunk_vars, world_vars>>

\* search_stats returns (line 153)
ReturnStats ==
    /\ Running("stats")
    /\ file_index > Len(fs.stats)
    /\ pc' = "report"
    /\ UNCHANGED <<fs, dimension_position_item, cached_player_names, player_inventory,
                   player_debris_mined, file_index, response, calls, output, written, error>>
    /\ UNCHANGED <<item_vars, chunk_vars, world_vars>>

(***************************************************************************)
(* main(): the report, lines 212-253                                       *)
(***************************************************************************)
\* Python truthiness of a value get_name can return (`if name:`, line 226)
Truthy(v) ==
    CASE v.k = "null" -> FALSE
      [] v.k = "str"  -> Len(v.s) > 0
      [] v.k = "num"  -> v.n # 0
      [] v.k = "arr"  -> Len(v.elems) > 0
      [] v.k = "obj"  -> Len(v.members) > 0

\* f"{x:.02f}" of an integral coordinate: its digits, the point, two zeros
Fixed2(x) == <<x, ".", "00">>

\* the lines of one item below its header (lines 218-230 and 236-245); a world
\* finding prints its name when truthy, a player's item when not None
ItemLines(header, it, name_if_truthy) ==
    IF ~Has(it, "id") THEN Raise("KeyError")
    ELSE Then(get_name(it), LAMBDA name :
         IF ~Has(it, "Count") THEN Raise("KeyError")
         ELSE LET count == it.Count
                  shown == IF name_if_truthy THEN Truthy(name) ELSE name # None
              IN  Ret(<<header>>
                      \o (IF shown THEN <<[line |-> "name", name |-> name]>> ELSE <<>>)
                      \o (IF count > 1 THEN <<[line |-> "count", count |-> count]>> ELSE <<>>)))

RECURSIVE FindingLines(_, _, _)
\* `for position, item in position_item` (lines 217-230), from finding j on
FindingLines(position_item, j, acc) ==
    IF j > Len(position_item) THEN Ret(acc)
    ELSE LET position == position_item[j][1]
             it       == position_item[j][2]
         IN  Then(ItemLines([line |-> "finding",
                             pos  |-> [c \in 1 .. 3 |-> Fixed2(position[c])],
                             id   |-> IF Has(it, "id") THEN it.id ELSE <<>>], it, TRUE),
                  LAMBDA lines : FindingLines(position_item, j + 1, acc \o lines))

RECURSIVE DimensionLines(_, _, _)
\* `for dimension, position_item in dimension_position_item` (lines 214-230); a
\* position_item of None cannot be iterated
DimensionLines(dpi, d, acc) ==
    IF d > Len(dpi) THEN Ret(acc)
    ELSE LET header == [line |-> "dimension", dimension |-> dpi[d][1]] IN
         IF dpi[d][2] = ReturnedNone THEN Raise("TypeError")
         ELSE Then(FindingLines(dpi[d][2].val, 1, Append(acc, header)), LAMBDA acc2 :
                   DimensionLines(dpi, d + 1, acc2))

RECURSIVE InventoryLines(_, _, _)
\* `for item in inventory` (lines 235-245), from item j on
InventoryLines(inventory, j, acc) ==
    IF j > Len(inventory) THEN Ret(acc)
    ELSE LET it == inventory[j] IN
         Then(ItemLines([line |-> "item", id |-> IF Has(it, "id") THEN it.id ELSE <<>>],
                        it, FALSE),
              LAMBDA lines : InventoryLines(inventory, j + 1, acc \o lines))

RECURSIVE PlayerLines(_, _, _)
\* `for player, inventory in player_inventory.items()` (lines 232-245)
PlayerLines(inv, n, acc) ==
    IF n > Len(inv) THEN Ret(acc)
    ELSE Then(InventoryLines(inv[n][2], 1,
                             Append(acc, [line |-> "player", player |-> inv[n][1].value])),
              LAMBDA acc2 : PlayerLines(inv, n + 1, acc2))

\* lines 212-245: the dimensions' lines, then the players'
ReportLines(dpi, inv) ==
    Then(DimensionLines(dpi, 1, <<>>), LAMBDA lines : PlayerLines(inv, 1, lines))

\* lines 247-248
DebrisLines(mined) ==
    [n \in 1 .. Len(mined) |->
        [line |-> "mined", player |-> mined[n][1].value, debris |-> mined[n][2]]]

\* lines 212-253: the report is assembled, then output.txt is written
WriteReport ==
    /\ Running("report")
    /\ \E lines \in {ReportLines(dimension_position_item, player_inventory)} :
           IF Raised(lines)
           THEN /\ error' = lines
                /\ UNCHANGED <<pc, output, written>>
           ELSE /\ output' = lines.val \o DebrisLines(player_debris_mined)
                /\ written' = TRUE
                /\ pc' = "done"
                /\ UNCHANGED error
    /\ UNCHANGED <<fs, dimension_position_item, cached_player_names, player_inventory,
                   player_debris_mined, file_index, response, calls>>
    /\ UNCHANGED <<item_vars, chunk_vars, world_vars>>

NextMain ==
    \/ CheckPaths
    \/ SearchDimension
    \/ SearchPlayersFile
    \/ ReturnPlayers
    \/ SearchStatsFile
    \/ UrlOpen
    \/ RecordLookedUp
    \/ ReturnStats
    \/ WriteReport
SpecMain == InitMain /\ [][NextMain]_vars

(***************************************************************************)
(* Properties of the Item Classifier (SpecItem)                            *)
(***************************************************************************)
\* C1: an item stack without an `id` field is never important: is_important_item
\* returns False, without raising, whatever its tag and Count are.
C1_NoIdNeverImportant ==
    (important_result # Pending /\ ~Has(item, "id")) => important_result = Ret(FALSE)

\* C1's case: an id-less stack whose display name is not even valid JSON was classified
C1_Witness ==
    /\ important_result = Ret(FALSE)
    /\ ~Has(item, "id")
    /\ Has(item, "tag") /\ Has(item.tag, "display") /\ Has(item.tag.display, "Name")
    /\ item.tag.display.Name = Doc_not_valid_json

\* C2: for an item stack with an `id`, is_important_item returns True exactly when
\* a display name is present (get_name returns a value) or the id contains one of
\* "netherite", "ancient_debris", "shulk"; otherwise it returns False.
C2_ImportantIffNameOrKeyword ==
    (important_result # Pending /\ Has(item, "id")) =>
        LET name_present == Returned(get_name(item)) /\ get_name(item).val # None
            keyword_in_id ==
                \/ StrContains(item.id, S_netherite)
                \/ StrContains(item.id, S_ancient_debris)
                \/ StrContains(item.id, S_shulk)
        IN  important_result = Ret(name_present \/ keyword_in_id)

\* C3: get_name never raises: it returns the `text` member when tag.display.Name
\* exists and decodes to a JSON object with a `text` member, and None for every
\* absent or malformed path (invalid JSON, a non-object).
C3_GetNameNeverRaises ==
    name_result # Pending =>
        /\ Returned(name_result)
        /\ LET has_name == /\ Has(item, "tag") /\ Has(item.tag, "display")
                           /\ Has(item.tag.display, "Name")
               doc      == JsonLoads(item.tag.display.Name)
               is_text_object ==
                   /\ has_name /\ Returned(doc) /\ doc.val.k = "obj"
                   /\ \E j \in 1 .. Len(doc.val.members) : doc.val.members[j][1] = S_text
           IN  IF is_text_object
               THEN name_result = PyGetItem(doc.val, S_text)
               ELSE name_result = Ret(None)

(***************************************************************************)
(* Properties of the Chunk Scanner (SpecChunk)                             *)
(***************************************************************************)
\* C4: a chunk whose entity list or tile-container list is absent is scanned as if
\* that list were empty: the findings of the list that is present are returned.
C4_AbsentListTreatedAsEmpty ==
    ( /\ chunk_result # Pending
      /\ Has(chunk, "Level")
      /\ (~Has(chunk.Level, "Entities") \/ ~Has(chunk.Level, "TileEntities")) ) =>
        LET filled == [Level |->
                [Entities     |-> IF Has(chunk.Level, "Entities")
                                  THEN chunk.Level.Entities ELSE <<>>,
                 TileEntities |-> IF Has(chunk.Level, "TileEntities")
                                  THEN chunk.Level.TileEntities ELSE <<>>]]
            wanted == get_important_chunk_items(filled)
        IN  Returned(wanted) => chunk_result = wanted

\* The item slots of a chunk, each <<section, owner, field, index>>: section 1 the
\* entities and 2 the tile containers, owner the index in storage order, field the
\* place in C5_FieldOrder, index the place in that field's list.
C5_FieldOrder == <<"Items", "ArmorItems", "HandItems", "Item">>

C5_Slots(ch) ==
    LET E  == ch.Level.Entities
        TE == ch.Level.TileEntities
    IN  UNION ( {{<<1, i, k, j>> : j \in 1 .. Len(E[i][C5_FieldOrder[k]])} :
                    <<i, k>> \in {p \in (1 .. Len(E)) \X (1 .. 3) :
                                     Has(E[p[1]], C5_FieldOrder[p[2]])}}
                \cup {{<<1, i, 4, 1>>} : i \in {n \in 1 .. Len(E) : Has(E[n], "Item")}}
                \cup {{<<2, i, 1, j>> : j \in 1 .. Len(TE[i].Items)} :
                         i \in {n \in 1 .. Len(TE) : Has(TE[n], "Items")}} )

C5_ItemAt(ch, s) ==
    IF s[1] = 1
    THEN IF s[3] = 4 THEN ch.Level.Entities[s[2]].Item
         ELSE ch.Level.Entities[s[2]][C5_FieldOrder[s[3]]][s[4]]
    ELSE ch.Level.TileEntities[s[2]].Items[s[4]]

C5_PosAt(ch, s) ==
    IF s[1] = 1 THEN ch.Level.Entities[s[2]].Pos
    ELSE <<ch.Level.TileEntities[s[2]].x, ch.Level.TileEntities[s[2]].y,
           ch.Level.TileEntities[s[2]].z>>

\* encounter order: lexicographic on <<section, owner, field, index>>
C5_Before(a, b) ==
    \E n \in 1 .. 4 : a[n] < b[n] /\ \A m \in 1 .. (n - 1) : a[m] = b[m]

\* C5: the sequence get_important_chunk_items returns is exactly the important
\* stacks in encounter order, each once, paired with its owner's position:
\* entities before tile containers, owners in storage order, within an entity
\* Items, ArmorItems, HandItems, then Item.
C5_FindingsInEncounterOrder ==
    Returned(chunk_result) =>
        LET important == {s \in C5_Slots(chunk) :
                             is_important_item(C5_ItemAt(chunk, s)) = Ret(TRUE)}
            rank(s) == Cardinality({t \in important : t = s \/ C5_Before(t, s)})
        IN  /\ Len(chunk_result.val) = Cardinality(important)
            /\ \A s \in important :
                   chunk_result.val[rank(s)] = <<C5_PosAt(chunk, s), C5_ItemAt(chunk, s)>>

\* C5's case: a scanned chunk with findings from all four entity fields and from a
\* tile container, among unimportant stacks
C5_Witness ==
    /\ Returned(chunk_result)
    /\ Len(chunk.Level.Entities) = 2
    /\ \E i \in 1 .. 2 : /\ Has(chunk.Level.Entities[i], "ArmorItems")
                         /\ Has(chunk.Level.Entities[i], "Item")
                         /\ chunk.Level.Entities[i].Item = IT_debris
    /\ \E i \in 1 .. Len(chunk.Level.TileEntities) :
           /\ Has(chunk.Level.TileEntities[i], "Items")
           /\ Len(chunk.Level.TileEntities[i].Items) = 3
    /\ Len(chunk_result.val) >= 7

(***************************************************************************)
(* Properties of search_world (SpecWorld)                                  *)
(***************************************************************************)
RECURSIVE C9_FindingsSkippingFailures(_, _)
\* the findings of the chunks from c on, a chunk whose scan fails giving none
C9_FindingsSkippingFailures(chunks, c) ==
    IF c > Len(chunks) THEN <<>>
    ELSE LET r == get_important_chunk_items(chunks[c]) IN
         (IF Returned(r) THEN r.val ELSE <<>>) \o C9_FindingsSkippingFailures(chunks, c + 1)

RECURSIVE C9_AllChunks(_, _)
C9_AllChunks(regions, r) ==
    IF r > Len(regions) THEN <<>> ELSE regions[r] \o C9_AllChunks(regions, r + 1)

\* C9: a chunk whose scan fails is skipped and contributes no findings; the scan
\* goes on and returns the findings of every other chunk of every region.
C9_FailingChunkSkipped ==
    (world_result # Pending /\ world.exists /\ world.opens) =>
        world_result = Ret(C9_FindingsSkippingFailures(C9_AllChunks(world.regions, 1), 1))

(***************************************************************************)
(* Properties of main (SpecMain)                                           *)
(***************************************************************************)
\* search_players has returned
C6_PlayersDone == pc \in {"stats", "urlopen", "record", "report", "done"}

\* the important items of one player file, primary inventory first
C6_Important(file) ==
    SelectSeq(file.nbt.Inventory \o file.nbt.EnderItems,
              LAMBDA it : is_important_item(it) = Ret(TRUE))

\* the files named n by bukkit.lastKnownName that hold important items
C6_Holders(n) ==
    {i \in 1 .. Len(fs.players) :
        /\ Has(fs.players[i].nbt, "bukkit")
        /\ fs.players[i].nbt.bukkit.lastKnownName = n
        /\ C6_Important(fs.players[i]) # <<>>}

\* C6: when two player files resolve to the same display name through
\* bukkit.lastKnownName and each holds important items, search_players' result has
\* one entry per file under that name, each with exactly that file's items: the
\* second file neither overwrites the first nor is mixed with it.
C6_SameNameKeptApart ==
    C6_PlayersDone =>
        \A n \in {"Steve", "Alex"} :
            Cardinality(C6_Holders(n)) >= 2 =>
                LET entries == {e \in 1 .. Len(player_inventory) :
                                   player_inventory[e][1].value = n}
                IN  \E f \in [C6_Holders(n) -> entries] :
                        /\ \A i, j \in C6_Holders(n) : i # j => f[i] # f[j]
                        /\ \A e \in entries : \E i \in C6_Holders(n) : f[i] = e
                        /\ \A i \in C6_Holders(n) :
                               player_inventory[f[i]][2] = C6_Important(fs.players[i])

\* C6's case: both files are called Steve, both hold important items, and
\* search_players has processed them
C6_Witness ==
    /\ C6_PlayersDone
    /\ Cardinality(C6_Holders("Steve")) = 2
    /\ Len(player_inventory) = 2
    /\ player_inventory[1][2] # player_inventory[2][2]

\* search_stats has been entered
C7_InStats == pc \in {"stats", "urlopen", "record", "report", "done"}

C7_CallsFor(uuid) == Cardinality({n \in 1 .. Len(calls) : calls[n] = Event("call", uuid)})

C7_HasCounter(file) ==
    /\ Has(file.data.stats, "minecraft:mined")
    /\ Has(file.data.stats["minecraft:mined"], "minecraft:ancient_debris")

\* the loop has got to the lookup of stats file j (or past the file)
C7_Reached(j) ==
    \/ j < file_index
    \/ j = file_index /\ (pc = "record" \/ (pc = "urlopen" /\ error # NoError))

\* C7 as stated: once the statistics pass is over, every identity with a cached
\* name has had no lookup and every identity without one exactly one, so that the
\* lookups number the identities lacking a cached name.
C7_OneCallPerUncachedIdentity ==
    pc \in {"report", "done"} =>
        /\ \A j \in 1 .. Len(fs.stats) :
               C7_CallsFor(fs.stats[j].uuid) =
                   IF fs.stats[j].uuid \in DOMAIN cached_player_names THEN 0 ELSE 1
        /\ Cardinality({n \in 1 .. Len(calls) : calls[n].ev = "call"}) =
               Cardinality({j \in 1 .. Len(fs.stats) :
                               fs.stats[j].uuid \notin DOMAIN cached_player_names})

\* C7 amended: the identities are those whose statistics file records an
\* ancient_debris count.  For each such identity the pass has got to: no lookup
\* when a name is cached, exactly one when none is, made before the pair is
\* recorded; an identity without the counter gets no lookup; and the lookups made
\* number the identities reached that have the counter and no cached name.
C7_OneCallPerUncachedCounterHolder ==
    C7_InStats =>
        /\ \A j \in 1 .. Len(fs.stats) :
               LET uuid   == fs.stats[j].uuid
                   lookup == /\ C7_Reached(j) /\ C7_HasCounter(fs.stats[j])
                             /\ uuid \notin DOMAIN cached_player_names
               IN  /\ C7_CallsFor(uuid) = IF lookup THEN 1 ELSE 0
                   /\ \A n \in 1 .. Len(calls) :
                          calls[n] = Event("record", uuid) =>
                              \/ uuid \in DOMAIN cached_player_names
                              \/ \E m \in 1 .. (n - 1) : calls[m] = Event("call", uuid)
        /\ Cardinality({n \in 1 .. Len(calls) : calls[n].ev = "call"}) =
               Cardinality({j \in 1 .. Len(fs.stats) :
                               /\ C7_Reached(j) /\ C7_HasCounter(fs.stats[j])
                               /\ fs.stats[j].uuid \notin DOMAIN cached_player_names})

\* C7's case: a finished pass that recorded one identity from the cache and
\* another after a lookup
C7_Witness ==
    /\ pc = "done"
    /\ \E m, n \in 1 .. Len(calls) :
           /\ m < n
           /\ calls[m].ev = "call" /\ calls[n] = Event("record", calls[m].uuid)
    /\ \E n \in 1 .. Len(calls) :
           calls[n].ev = "record" /\ calls[n].uuid \in DOMAIN cached_player_names

\* the reply to a lookup was a failure: transport error, unparseable, or empty
C8_LookupFailed ==
    /\ response # Pending
    /\ \/ Raised(response)
       \/ Returned(response) /\ (~response.val.json \/ Len(response.val.names) = 0)

\* C8: a failed name lookup is caught: the run goes on, the identity is recorded
\* under the placeholder name "unknown", and the report gets written.
C8_LookupFailureNotFatal ==
    C8_LookupFailed =>
        /\ error = NoError
        /\ pc \in {"stats", "report", "done"} =>
               \E n \in 1 .. Len(player_debris_mined) :
                   player_debris_mined[n][1] = Str("unknown")
        /\ pc = "done" => written

\* main has ended: returned, or left by an exception
C10_Ended == pc \in {"returned", "done"} \/ error # NoError

\* C10: with all five paths present, a dimension whose world fails to open
\* contributes no findings: the run still writes output.txt, with that dimension's
\* header followed by no finding line.
C10_UnopenableDimensionEmpty ==
    ( /\ C10_Ended
      /\ \A n \in 1 .. Len(PATHS) : fs.paths[PATHS[n]]
      /\ \E d \in 1 .. 3 : ~fs.dims[d].opens
      /\ \A d \in 1 .. 3 : fs.dims[d].opens => Returned(search_world(WorldDir(d))) ) =>
        /\ written
        /\ \A d \in 1 .. 3 :
               ~fs.dims[d].opens =>
                   \E n \in 1 .. Len(output) :
                       /\ output[n] = [line |-> "dimension", dimension |-> DIMENSIONS[d].name]
                       /\ n < Len(output) => output[n + 1].line # "finding"

====
